---- MODULE Spec2Model ----
(***************************************************************************)
(* Model of the slicing-metrics extractor (slice_with_prusa.py) and of the *)
(* BOM aggregator (generate_bom.py).                                       *)
(*                                                                         *)
(* Number representation.  Every weight is an integer counting hundredths  *)
(* of a gram (1236 stands for 12.36 g, and for 0.01236 kg in the           *)
(* *_weight_kg fields), the unit in which the slicer prints "total         *)
(* filament used [g]".  A price is an integer counting tenths of EGP       *)
(* (248 stands for 24.8).  The weight and cost domains are free of         *)
(* rounding ties, where the binary representation of a float would         *)
(* decide.                                                                 *)
(***************************************************************************)
EXTENDS Integers, Sequences, FiniteSets

----------------------------------------------------------------------------
(* Bounds and input domains *)

\* weights the slicer may print in a G-code, in hundredths of a gram
Weights == {0, 1236, 2000, 10000}

\* the "total filament used [g]" comment is absent from a G-code file
NoMarker == 0 - 1

\* a key that does not occur in config.ini
NoKey == "<absent>"

\* values of the filament_cost key in config.ini
CostTokens == {NoKey, "2000", "0", "-5", "abc", "YES", "1"}

\* values of the supports_enabled key in config.ini
SupportsTokens == {NoKey, "1", "0", "maybe"}

----------------------------------------------------------------------------
(* Python values returned by extract_config_value *)

PyBool(b) == [kind |-> "bool", num |-> b, str |-> ""]
PyFloat(n) == [kind |-> "float", num |-> n, str |-> ""]
PyStr(s) == [kind |-> "str", num |-> 0, str |-> s]

\* str.lower() on the configuration tokens
Lower(s) == CASE s = "YES" -> "yes"
              [] OTHER -> s

\* the tokens float() accepts, with their values
NumericTokens == {"2000", "2500", "-5", "2"}
FloatOf(s) == CASE s = "2000" -> 2000
                [] s = "2500" -> 2500
                [] s = "-5" -> -5
                [] s = "2" -> 2
                [] OTHER -> 0

\* extract_config_value(config_content, key, default_value), tok being the
\* text matched after "key =" (NoKey when the pattern does not match)
ExtractConfigValue(tok, default_value) ==
  IF tok = NoKey THEN default_value
  ELSE IF Lower(tok) \in {"true", "yes", "1", "on"} THEN PyBool(1)
  ELSE IF Lower(tok) \in {"false", "no", "0", "off"} THEN PyBool(0)
  ELSE IF tok \in NumericTokens THEN PyFloat(FloatOf(tok))
  ELSE PyStr(tok)

\* isinstance(v, (int, float)); bool is a subclass of int
IsNumber(v) == v.kind \in {"bool", "float"}

\* truth value of a Python object in "if v:"
Truthy(v) == IF v.kind = "str" THEN v.str # "" ELSE v.num # 0

DefaultCost == PyFloat(2500)
DefaultSupports == PyBool(1)

----------------------------------------------------------------------------
(* Arithmetic *)

Max(a, b) == IF a >= b THEN a ELSE b

\* round(n / d) to the nearest integer, ties to even; n >= 0, d > 0
RoundHalfEven(n, d) ==
  LET q == n \div d
      r == n % d
  IN IF 2 * r < d THEN q
     ELSE IF 2 * r > d THEN q + 1
     ELSE IF q % 2 = 0 THEN q ELSE q + 1

\* round(w, 1) of a weight
Round1_NoRounding(w) == w
Round1(w) == RoundHalfEven(w, 10) * 10

\* supports weight by subtraction, clamped at zero
SupportsWeight_NoClamp(total, object) ==
  IF total >= 0 /\ object >= 0 THEN total - object ELSE 0
SupportsWeight(total, object) ==
  IF total >= 0 /\ object >= 0 THEN Max(0, total - object) ELSE 0

\* price_egp from total_weight_kg and the cost per kg: round(kg * cost, 1)
PriceEgp(total_weight_kg, cost) ==
  IF IsNumber(cost) /\ cost.num > 0
  THEN RoundHalfEven(total_weight_kg * cost.num, 10000)
  ELSE 0

\* extract_metrics: the weight read from the G-code of a run
\* and whether a warning is printed: the parse error and the zero-weight
\* warning both need the G-code file to exist
ExtractMetrics(gcode) ==
  [weight_g |-> IF gcode.exists /\ gcode.marker # NoMarker
                THEN gcode.marker ELSE 0,
   warned |-> gcode.exists /\ gcode.marker = NoMarker]

\* A duration the slicer reports is <<h, m, s>>; NoTime is a text without
\* the "estimated printing time" line, or one whose duration the pattern
\* does not read.  print_time is "Unknown" or the non-zero components in
\* the order h, m, s, as in "1h 5s".
NoTime == <<>>
GcodeTimes == {NoTime, <<0, 0, 0>>, <<1, 0, 5>>}
OutputTimes == {NoTime, <<0, 2, 0>>}
Unknown == [known |-> FALSE, parts |-> <<>>]

Component(n, unit) == IF n > 0 THEN <<[n |-> n, unit |-> unit]>> ELSE <<>>

\* " ".join(time_parts) under "if h > 0 or m > 0 or s > 0"
FormatTime_KeepsZero(t) ==
  IF t = NoTime THEN Unknown
  ELSE [known |-> TRUE,
        parts |-> Component(t[1], "h") \o Component(t[2], "m")
                    \o Component(t[3], "s")]
FormatTime(t) ==
  IF t = NoTime \/ (t[1] = 0 /\ t[2] = 0 /\ t[3] = 0) THEN Unknown
  ELSE [known |-> TRUE,
        parts |-> Component(t[1], "h") \o Component(t[2], "m")
                    \o Component(t[3], "s")]

\* extract_metrics: the print time, from the G-code when the file exists
\* and the weight marker was read before it, else from the slicer output
PrintTimeOf(gcode, gcodeTime, outputTime) ==
  LET fromGcode == IF gcode.exists /\ gcode.marker # NoMarker
                   THEN FormatTime(gcodeTime) ELSE Unknown
  IN IF fromGcode = Unknown THEN FormatTime(outputTime) ELSE fromGcode

NoGcode == [exists |-> FALSE, marker |-> NoMarker]
Gcodes == [exists : {TRUE}, marker : Weights \cup {NoMarker}] \cup {NoGcode}

\* os.remove(config_with_supports); os.remove(config_without_supports);
\* os.rmdir(temp_dir) inside one try block: the first OSError ends the block.
\* f is the operation the file system refuses (0: none); removing a file
\* that does not exist raises as well.
RemoveTemps_OnlyFirst(fs, f) ==
  IF f = 1 \/ ~fs.with THEN fs ELSE [fs EXCEPT !.with = FALSE]
RemoveTemps(fs, f) ==
  IF f = 1 \/ ~fs.with THEN fs
  ELSE IF f = 2 \/ ~fs.without THEN [fs EXCEPT !.with = FALSE]
  ELSE IF f = 3 \/ ~fs.dir THEN [fs EXCEPT !.with = FALSE, !.without = FALSE]
  ELSE [dir |-> FALSE, with |-> FALSE, without |-> FALSE]

\* the cleanup of the general exception handler, each removal guarded by
\* os.path.exists
GuardedRemoveTemps(fs, f) ==
  IF ~fs.dir THEN fs
  ELSE IF fs.with /\ f = 1 THEN fs
  ELSE LET a == [fs EXCEPT !.with = FALSE]
       IN IF a.without /\ f = 2 THEN a
          ELSE LET b == [a EXCEPT !.without = FALSE]
               IN IF f = 3 THEN b ELSE [b EXCEPT !.dir = FALSE]

\* the file-system faults a cleanup block may meet
\* The lines of a configuration text that mention support_material, in
\* the order of the text: kind "key" is the line "support_material = val"
\* at the start of a line, kind "comment" is "# support_material = val".
KeyLine(v) == [kind |-> "key", val |-> v]
CommentLine(v) == [kind |-> "comment", val |-> v]
Digits == {"0", "1"}
BaseContents ==
  {<<>>, <<KeyLine("0")>>, <<KeyLine("1")>>, <<KeyLine("true")>>,
   <<CommentLine("1")>>}

\* re.sub(r'^support_material\s*=\s*\d', 'support_material = d', content,
\* flags=re.MULTILINE): a key line whose value starts with a digit
SubstituteDigit(content, d) ==
  [i \in 1 .. Len(content) |->
     IF content[i].kind = "key" /\ content[i].val \in Digits
     THEN KeyLine(d) ELSE content[i]]

\* 'support_material = d' in content
ContainsLiteral(content, d) ==
  \E i \in 1 .. Len(content) : content[i].val = d

\* re.search(r'^support_material\s*=', content, flags=re.MULTILINE)
HasKeyLine(content) ==
  \E i \in 1 .. Len(content) : content[i].kind = "key"

\* the text written to a variant, derived from the base text
Variant_NoAppend(content, d) == SubstituteDigit(content, d)
Variant(content, d) ==
  LET modified == SubstituteDigit(content, d)
  IN IF ~ContainsLiteral(modified, d) /\ ~HasKeyLine(modified)
     THEN Append(modified, KeyLine(d))
     ELSE modified

CleanupFaults == 0 .. 3

\* exit status of the command line from the value slice_with_prusa returned
ExitCodeOf_AlwaysZero(result) == 0
ExitCodeOf(result) == IF result = "None" THEN 1 ELSE 0

----------------------------------------------------------------------------
(* State of one run of the metrics extractor *)

VARIABLES
  pc,                   \* position of the run
  entry,                \* "cli": the script is run; "call": the function is called
  argc,                 \* len(sys.argv)
  inputExists,          \* the geometry file exists
  cfg,                  \* config.ini: exists, and the text of its keys
  filament_cost_per_kg, \* local of slice_with_prusa
  supports_enabled,     \* local of slice_with_prusa
  temp,                 \* temp_configs: dir, with, without exist
  gcodeWith,            \* <part>_with_supports.gcode
  gcodeWithout,         \* <part>_without_supports.gcode
  metrics,              \* the metrics dictionary
  statsFile,            \* <part>_stats.json: <<>> or <<record>>
  ret,                  \* "pending", "None" or "metrics"
  exitCode,             \* -1 while running, then the exit status
  calls,                \* the slicer invocations so far
  raised,               \* an exception reached the general handler
  created,              \* both temporary configuration variants were written
  cleanupFault,         \* the removal that raised OSError in the cleanup (0: none)
  warnings,             \* the slices ("with", "without") whose extraction warned
  variants,             \* the support_material lines written to the two variants
  with_supports_time,   \* print_time of with_supports_metrics
  without_supports_time \* print_time of without_supports_metrics

svars == <<pc, entry, argc, inputExists, cfg, filament_cost_per_kg,
           supports_enabled, temp, gcodeWith, gcodeWithout, metrics,
           statsFile, ret, exitCode, calls, raised, created, cleanupFault,
           warnings, variants, with_supports_time, without_supports_time>>

(* State of one run of the BOM aggregator *)

VARIABLES
  bpc,                 \* position of the run
  bentry,              \* "cli": the script is run; "call": generate_bom is called
  bargc,               \* len(sys.argv)
  path,                \* what the input path is
  files,               \* the record files found at the path, in glob order
  bomDirExists,        \* the BOM output directory exists
  reportlab_available, \* module flag
  fpdf_available,      \* module flag
  stats_files,         \* local of generate_bom
  idx,                 \* number of files the parsing loop has handled
  parts_data,          \* local of generate_bom
  total_cost,          \* local of generate_bom
  total_weight,        \* local of generate_bom
  csv,                 \* the CSV file: exists, rows, summary rows
  pdf_generated,       \* local of generate_bom
  bret,                \* "pending", "None" or "pair"
  pdf_path,            \* the second component of the pair is not None
  bexit,               \* -1 while running, then the exit status
  braised,             \* an exception reached the general handler
  bomDirFailed,        \* os.makedirs of the BOM directory raised OSError
  strays,              \* files of the directory not named *_stats.json
  fpdfInstalled,       \* the fpdf library can be imported
  pdfAttempts          \* the PDF generators that were called, in order

bvars == <<bpc, bentry, bargc, path, files, bomDirExists, reportlab_available,
           fpdf_available, stats_files, idx, parts_data, total_cost,
           total_weight, csv, pdf_generated, bret, pdf_path, bexit, braised,
           bomDirFailed, strays, fpdfInstalled, pdfAttempts>>

(* State of two simultaneous runs of slice_with_prusa *)

VARIABLES
  cin,                 \* the input of each run: its directory and its part
  csupports,           \* supports_enabled of the shared config.ini
  cpc,                 \* position of each run
  cfs,                 \* temp_configs of each directory: the run that wrote
                       \* each variant last (0: the file does not exist)
  cret,                \* "pending", "None" or "metrics", for each run
  cmissing,            \* the last slicer started by this run found no variant
  ccleanup             \* the cleanup block a run is in: "none", "fail" (after
                       \* a failed slice), "final" or "except"

cvars == <<cin, csupports, cpc, cfs, cret, cmissing, ccleanup>>

vars == <<svars, bvars, cvars>>

Unset == [kind |-> "unset", num |-> 0, str |-> ""]

InitialMetrics ==
  [object_weight_g |-> 0, supports_weight_g |-> 0, total_weight_g |-> 0,
   price_egp |-> 0, object_weight_kg |-> 0, supports_weight_kg |-> 0,
   total_weight_kg |-> 0, print_time |-> Unknown]

SlicerOutcomes == {"ok", "fail", "raise"}

SliceInit ==
  /\ entry \in {"cli", "call"}
  /\ pc = IF entry = "cli" THEN "main" ELSE "check_file"
  /\ argc \in IF entry = "cli" THEN {1, 2} ELSE {2}
  /\ inputExists \in BOOLEAN
  /\ cfg \in [exists : BOOLEAN, cost : CostTokens, sup : SupportsTokens,
              sm : BaseContents]
  /\ filament_cost_per_kg = Unset
  /\ supports_enabled = Unset
  /\ temp = [dir |-> FALSE, with |-> FALSE, without |-> FALSE]
  /\ gcodeWith = NoGcode
  /\ gcodeWithout = NoGcode
  /\ metrics = InitialMetrics
  /\ statsFile = <<>>
  /\ ret = "pending"
  /\ exitCode = 0 - 1
  /\ calls = <<>>
  /\ raised = FALSE
  /\ created = FALSE
  /\ cleanupFault = 0
  /\ warnings = {}
  /\ variants = [with |-> <<>>, without |-> <<>>]
  /\ with_supports_time = Unknown
  /\ without_supports_time = Unknown

----------------------------------------------------------------------------
(* The command line and slice_with_prusa, one action per step *)

\* __main__: usage and file checks, then the call
Main ==
  /\ pc = "main"
  /\ IF argc # 2 \/ ~inputExists
     THEN /\ exitCode' = 1
          /\ pc' = "exited"
     ELSE /\ exitCode' = exitCode
          /\ pc' = "check_file"
  /\ UNCHANGED <<entry, argc, inputExists, cfg, filament_cost_per_kg,
                 supports_enabled, temp, gcodeWith, gcodeWithout, metrics,
                 statsFile, ret, calls, raised, created, cleanupFault>>
  /\ UNCHANGED <<warnings, variants, with_supports_time, without_supports_time,
                 bvars, cvars>>

\* the file check of slice_with_prusa and the creation of Slicer_Stats;
\* mk is whether os.makedirs succeeds
CheckFile ==
  /\ pc = "check_file"
  /\ \E mk \in BOOLEAN :
       IF ~inputExists
       THEN /\ ret' = "None"
            /\ pc' = "returned"
            /\ raised' = raised
       ELSE IF ~mk
       THEN /\ raised' = TRUE
            /\ pc' = "except"
            /\ ret' = ret
       ELSE /\ pc' = "read_config"
            /\ UNCHANGED <<ret, raised>>
  /\ UNCHANGED <<entry, argc, inputExists, cfg, filament_cost_per_kg,
                 supports_enabled, temp, gcodeWith, gcodeWithout, metrics,
                 statsFile, exitCode, calls, created, cleanupFault>>
  /\ UNCHANGED <<warnings, variants, with_supports_time, without_supports_time,
                 bvars, cvars>>

\* config.ini is looked up and its settings extracted
ReadConfig ==
  /\ pc = "read_config"
  /\ IF ~cfg.exists
     THEN /\ ret' = "None"
          /\ pc' = "returned"
          /\ UNCHANGED <<filament_cost_per_kg, supports_enabled>>
     ELSE /\ filament_cost_per_kg' = ExtractConfigValue(cfg.cost, DefaultCost)
          /\ supports_enabled' = ExtractConfigValue(cfg.sup, DefaultSupports)
          /\ pc' = "temp_configs"
          /\ ret' = ret
  /\ UNCHANGED <<entry, argc, inputExists, cfg, temp, gcodeWith, gcodeWithout,
                 metrics, statsFile, exitCode, calls, raised, created,
                 cleanupFault>>
  /\ UNCHANGED <<warnings, variants, with_supports_time, without_supports_time,
                 bvars, cvars>>

\* temp_configs and the two configuration variants are written, and the
\* metrics dictionary is initialised; o tells which open() raises, if any
CreateTempConfigs ==
  /\ pc = "temp_configs"
  /\ \E o \in {"ok", "raise_first", "raise_second"} :
       /\ temp' = [dir |-> TRUE,
                   with |-> o # "raise_first",
                   without |-> o = "ok"]
       /\ variants' = [with |-> IF o # "raise_first"
                                 THEN Variant(cfg.sm, "1") ELSE <<>>,
                       without |-> IF o = "ok"
                                    THEN Variant(cfg.sm, "0") ELSE <<>>]
       /\ created' = (o = "ok")
       /\ raised' = (o # "ok")
       /\ pc' = IF o = "ok" THEN "first_slice" ELSE "except"
  /\ metrics' = InitialMetrics
  /\ UNCHANGED <<entry, argc, inputExists, cfg, filament_cost_per_kg,
                 supports_enabled, gcodeWith, gcodeWithout, statsFile, ret,
                 exitCode, calls, cleanupFault>>
  /\ UNCHANGED <<warnings, with_supports_time, without_supports_time,
                 bvars, cvars>>

\* "if supports_enabled:": whether the with-supports slice is run
SlicesWithSupports_Always(enabled) == TRUE
SlicesWithSupports(enabled) == Truthy(enabled)

\* first slice, with supports, when supports are enabled
FirstSlice ==
  /\ pc = "first_slice"
  /\ IF ~SlicesWithSupports(supports_enabled)
     THEN /\ pc' = "second_slice"
          /\ UNCHANGED <<temp, gcodeWith, metrics, ret, calls, raised,
                         cleanupFault, warnings, with_supports_time>>
     ELSE \E out \in SlicerOutcomes, g \in Gcodes, f \in CleanupFaults,
             gt \in GcodeTimes, ot \in OutputTimes :
            /\ calls' = Append(calls, [mode |-> "with", out |-> out])
            /\ CASE out = "raise" ->
                      /\ raised' = TRUE
                      /\ pc' = "except"
                      /\ UNCHANGED <<temp, gcodeWith, metrics, ret,
                                     cleanupFault, warnings,
                                     with_supports_time>>
                 [] out = "fail" ->
                      /\ temp' = RemoveTemps(temp, f)
                      /\ cleanupFault' = f
                      /\ ret' = "None"
                      /\ pc' = "returned"
                      /\ UNCHANGED <<gcodeWith, metrics, raised, warnings,
                                     with_supports_time>>
                 [] out = "ok" ->
                      /\ gcodeWith' = g
                      /\ with_supports_time' = PrintTimeOf(g, gt, ot)
                      /\ metrics' = [metrics EXCEPT
                           !.total_weight_g = ExtractMetrics(g).weight_g,
                           !.print_time = PrintTimeOf(g, gt, ot)]
                      /\ warnings' = IF ExtractMetrics(g).warned
                                      THEN warnings \cup {"with"}
                                      ELSE warnings
                      /\ pc' = "second_slice"
                      /\ UNCHANGED <<temp, ret, raised, cleanupFault>>
  /\ UNCHANGED <<entry, argc, inputExists, cfg, filament_cost_per_kg,
                 supports_enabled, gcodeWithout, statsFile, exitCode, created>>
  /\ UNCHANGED <<variants, without_supports_time, bvars, cvars>>

\* second slice, always without supports
SecondSlice ==
  /\ pc = "second_slice"
  /\ \E out \in SlicerOutcomes, g \in Gcodes, f \in CleanupFaults,
        gt \in GcodeTimes, ot \in OutputTimes :
       /\ calls' = Append(calls, [mode |-> "without", out |-> out])
       /\ CASE out = "raise" ->
                 /\ raised' = TRUE
                 /\ pc' = "except"
                 /\ UNCHANGED <<temp, gcodeWithout, metrics, ret,
                                cleanupFault, warnings,
                                without_supports_time>>
            [] out = "fail" ->
                 /\ temp' = RemoveTemps(temp, f)
                 /\ cleanupFault' = f
                 /\ ret' = "None"
                 /\ pc' = "returned"
                 /\ UNCHANGED <<gcodeWithout, metrics, raised, warnings,
                                without_supports_time>>
            [] out = "ok" ->
                 /\ gcodeWithout' = g
                 /\ without_supports_time' = PrintTimeOf(g, gt, ot)
                 /\ metrics' = [metrics EXCEPT
                      !.object_weight_g = ExtractMetrics(g).weight_g]
                 /\ warnings' = IF ExtractMetrics(g).warned
                                 THEN warnings \cup {"without"}
                                 ELSE warnings
                 /\ pc' = "calculate"
                 /\ UNCHANGED <<temp, ret, raised, cleanupFault>>
  /\ UNCHANGED <<entry, argc, inputExists, cfg, filament_cost_per_kg,
                 supports_enabled, gcodeWith, statsFile, exitCode, created>>
  /\ UNCHANGED <<variants, with_supports_time, bvars, cvars>>

\* the metrics dictionary after the calculations
Calculated(m, enabled, cost) ==
  LET total == IF enabled THEN m.total_weight_g ELSE m.object_weight_g
      supports == IF enabled
                  THEN SupportsWeight(m.total_weight_g, m.object_weight_g)
                  ELSE 0
      total_kg == Round1(total)
  IN [object_weight_g |-> m.object_weight_g,
      supports_weight_g |-> supports,
      total_weight_g |-> total,
      total_weight_kg |-> total_kg,
      object_weight_kg |-> Round1(m.object_weight_g),
      supports_weight_kg |-> Round1(supports),
      price_egp |-> PriceEgp(total_kg, cost),
      print_time |-> m.print_time]

Calculate ==
  /\ pc = "calculate"
  /\ metrics' = Calculated(metrics, Truthy(supports_enabled),
                           filament_cost_per_kg)
  /\ pc' = "write_stats"
  /\ UNCHANGED <<entry, argc, inputExists, cfg, filament_cost_per_kg,
                 supports_enabled, temp, gcodeWith, gcodeWithout, statsFile,
                 ret, exitCode, calls, raised, created, cleanupFault>>
  /\ UNCHANGED <<warnings, variants, with_supports_time, without_supports_time,
                 bvars, cvars>>

\* the record is dumped to <part>_stats.json; an IOError is printed and
\* the run goes on
WriteStats ==
  /\ pc = "write_stats"
  /\ \E ok \in BOOLEAN :
       statsFile' = IF ok THEN <<metrics>> ELSE statsFile
  /\ pc' = "cleanup"
  /\ UNCHANGED <<entry, argc, inputExists, cfg, filament_cost_per_kg,
                 supports_enabled, temp, gcodeWith, gcodeWithout, metrics,
                 ret, exitCode, calls, raised, created, cleanupFault>>
  /\ UNCHANGED <<warnings, variants, with_supports_time, without_supports_time,
                 bvars, cvars>>

\* cleanup of the temporary files, then the record is returned
Cleanup ==
  /\ pc = "cleanup"
  /\ \E f \in CleanupFaults :
       /\ temp' = RemoveTemps(temp, f)
       /\ cleanupFault' = f
  /\ ret' = "metrics"
  /\ pc' = "returned"
  /\ UNCHANGED <<entry, argc, inputExists, cfg, filament_cost_per_kg,
                 supports_enabled, gcodeWith, gcodeWithout, metrics,
                 statsFile, exitCode, calls, raised, created>>
  /\ UNCHANGED <<warnings, variants, with_supports_time, without_supports_time,
                 bvars, cvars>>

\* the general exception handler
ExceptHandler ==
  /\ pc = "except"
  /\ \E f \in CleanupFaults :
       /\ temp' = GuardedRemoveTemps(temp, f)
       /\ cleanupFault' = f
  /\ ret' = "None"
  /\ pc' = "returned"
  /\ UNCHANGED <<entry, argc, inputExists, cfg, filament_cost_per_kg,
                 supports_enabled, gcodeWith, gcodeWithout, metrics,
                 statsFile, exitCode, calls, raised, created>>
  /\ UNCHANGED <<warnings, variants, with_supports_time, without_supports_time,
                 bvars, cvars>>

\* __main__ after the call: the exit status
MainExit ==
  /\ pc = "returned"
  /\ entry = "cli"
  /\ exitCode' = ExitCodeOf(ret)
  /\ pc' = "exited"
  /\ UNCHANGED <<entry, argc, inputExists, cfg, filament_cost_per_kg,
                 supports_enabled, temp, gcodeWith, gcodeWithout, metrics,
                 statsFile, ret, calls, raised, created, cleanupFault>>
  /\ UNCHANGED <<warnings, variants, with_supports_time, without_supports_time,
                 bvars, cvars>>



SliceNext ==
  \/ Main
  \/ CheckFile
  \/ ReadConfig
  \/ CreateTempConfigs
  \/ FirstSlice
  \/ SecondSlice
  \/ Calculate
  \/ WriteStats
  \/ Cleanup
  \/ ExceptHandler
  \/ MainExit

----------------------------------------------------------------------------
(* Record files read by the BOM aggregator *)

\* number of record files in a scanned directory
MaxFiles == 2

\* the value of a key of a JSON record.  For part_name, StrV(c) is the
\* name with code c, codes ordered as the names are: 0 is "", 1 is "A",
\* 2 is "B".  For a numeric key, NumV(n) is the number n (weights in
\* hundredths of a gram, prices in tenths of EGP) and StrV(0) is a text
\* float() rejects, such as "abc".
Absent == [t |-> "absent", n |-> 0]
Null == [t |-> "null", n |-> 0]
NumV(n) == [t |-> "num", n |-> n]
StrV(c) == [t |-> "str", n |-> c]

RecordFile(name, object, supports, total, price) ==
  [json |-> TRUE, part_name |-> name, object_weight_g |-> object,
   supports_weight_g |-> supports, total_weight_g |-> total,
   price_egp |-> price]

\* a file that is not JSON
BadJson ==
  [json |-> FALSE, part_name |-> Absent, object_weight_g |-> Absent,
   supports_weight_g |-> Absent, total_weight_g |-> Absent,
   price_egp |-> Absent]

RecordFiles ==
  { RecordFile(StrV(1), NumV(10000), NumV(0), NumV(10000), NumV(250)),
    RecordFile(StrV(2), NumV(4000), NumV(1000), NumV(5000), NumV(125)),
    RecordFile(StrV(0), Absent, Absent, NumV(2000), NumV(50)),
    RecordFile(Null, NumV(2000), NumV(0), NumV(2000), NumV(50)),
    RecordFile(Absent, NumV(2000), NumV(0), NumV(2000), NumV(50)),
    RecordFile(StrV(1), NumV(5000), NumV(0), NumV(5000), Absent),
    RecordFile(StrV(1), NumV(5000), NumV(0), NumV(5000), Null),
    RecordFile(StrV(1), NumV(5000), NumV(0), NumV(5000), StrV(0)),
    RecordFile(StrV(2), NumV(5000), NumV(0), StrV(0), NumV(125)),
    RecordFile(StrV(2), StrV(0), NumV(0), NumV(5000), NumV(125)),
    BadJson }

\* a file of the directory under another name, such as notes.json
StrayFiles ==
  { RecordFile(StrV(1), NumV(10000), NumV(0), NumV(10000), NumV(250)) }

SeqsUpTo(S, n) == UNION {[1 .. k -> S] : k \in 0 .. n}

\* float(x or 0): ok is whether the conversion returns, val its value
ToFloat(v) == [ok |-> v.t # "str", val |-> IF v.t = "num" THEN v.n ELSE 0]

\* all(k in metrics for k in ["part_name", "total_weight_g", "price_egp"])
HasRequiredKeys(f) ==
  /\ f.part_name.t # "absent"
  /\ f.total_weight_g.t # "absent"
  /\ f.price_egp.t # "absent"

\* one turn of the parsing loop on file f; st holds parts_data, total_cost
\* and total_weight.  The record is appended before its numbers are
\* converted, and a failed conversion ends the turn.
Parsed_NoKeyCheck(st, f) ==
  IF ~f.json THEN st
  ELSE LET p == ToFloat(f.price_egp)
           w == ToFloat(f.total_weight_g)
       IN [parts |-> Append(st.parts, f),
           cost |-> IF p.ok THEN st.cost + p.val ELSE st.cost,
           weight |-> IF p.ok /\ w.ok THEN st.weight + w.val ELSE st.weight]
Parsed(st, f) ==
  IF ~f.json \/ ~HasRequiredKeys(f) THEN st
  ELSE LET p == ToFloat(f.price_egp)
           w == ToFloat(f.total_weight_g)
       IN [parts |-> Append(st.parts, f),
           cost |-> IF p.ok THEN st.cost + p.val ELSE st.cost,
           weight |-> IF p.ok /\ w.ok THEN st.weight + w.val ELSE st.weight]

\* the sort key x.get("part_name", "")
NameKey(p) == IF p.part_name.t = "absent" THEN 0 ELSE p.part_name.n

\* list.sort compares the keys: a key that is None raises TypeError as soon
\* as there is another element to compare it with
SortRaises(parts) ==
  Len(parts) >= 2 /\ \E i \in 1 .. Len(parts) : parts[i].part_name.t = "null"

RECURSIVE InsertByName(_, _)
InsertByName(s, x) ==
  IF s = <<>> THEN <<x>>
  ELSE IF NameKey(Head(s)) <= NameKey(x)
       THEN <<Head(s)>> \o InsertByName(Tail(s), x)
       ELSE <<x>> \o s

\* parts_data.sort(key = part name): ascending and stable
RECURSIVE SortByName(_)
SortByName(s) ==
  IF s = <<>> THEN <<>>
  ELSE InsertByName(SortByName(SubSeq(s, 1, Len(s) - 1)), s[Len(s)])

\* the four conversions of a CSV or PDF row return
RowOk(p) ==
  /\ ToFloat(p.object_weight_g).ok
  /\ ToFloat(p.supports_weight_g).ok
  /\ ToFloat(p.total_weight_g).ok
  /\ ToFloat(p.price_egp).ok

\* f"{x:.4f}" of a weight and f"{x:.2f}" of a price: the number of
\* ten-thousandths and of hundredths printed
Format4(w) == w * 100
Format2(c) == c * 10

CsvRow(p) ==
  [name |-> p.part_name,
   object |-> Format4(ToFloat(p.object_weight_g).val),
   supports |-> Format4(ToFloat(p.supports_weight_g).val),
   total |-> Format4(ToFloat(p.total_weight_g).val),
   price |-> Format2(ToFloat(p.price_egp).val)]

\* the rows written before the first row whose conversion raises
RECURSIVE RowsWritten(_)
RowsWritten(parts) ==
  IF parts = <<>> \/ ~RowOk(Head(parts)) THEN <<>>
  ELSE <<CsvRow(Head(parts))>> \o RowsWritten(Tail(parts))

NoCsv == [exists |-> FALSE, rows |-> <<>>, summary |-> <<>>]

\* generate_csv_bom: the file it leaves; openOk is whether open() returns
GenerateCsv(parts, cost, weight, openOk) ==
  IF ~openOk THEN NoCsv
  ELSE LET rows == RowsWritten(parts)
       IN [exists |-> TRUE,
           rows |-> rows,
           summary |-> IF Len(rows) = Len(parts)
                       THEN <<[count |-> Len(parts),
                               total_weight |-> Format4(weight),
                               total_cost |-> Format2(cost)]>>
                       ELSE <<>>]

\* generate_pdf_bom_reportlab / generate_pdf_bom_fpdf: the value returned;
\* renderOk is whether the library calls return
GeneratePdf(parts, renderOk) ==
  renderOk /\ \A i \in 1 .. Len(parts) : RowOk(parts[i])

\* the PDF stage of generate_bom
PdfGenerated(reportlab, fpdf, parts, renderOk) ==
  IF reportlab THEN GeneratePdf(parts, renderOk)
  ELSE IF fpdf THEN GeneratePdf(parts, renderOk)
  ELSE FALSE

\* the generators the PDF stage calls
PdfAttempts(reportlab, fpdf) ==
  IF reportlab THEN <<"reportlab">>
  ELSE IF fpdf THEN <<"fpdf">>
  ELSE <<>>

\* "if not pdf_generated: pdf_path = None": the path is kept (TRUE) or None
PdfPath(generated) == generated

\* glob.glob(os.path.join(dir, "*_stats.json")): the files of the directory
\* whose names match, none of the others
GlobStats_AnyFile(matching, others) == matching \o others
GlobStats(matching, others) == matching

\* exit status of the aggregator from the value generate_bom returned
BomExitCodeOf(result) == IF result = "None" THEN 1 ELSE 0

Paths == {"missing", "dir", "stats_json", "plain_json", "other_file"}

BomInit ==
  /\ bentry \in {"cli", "call"}
  /\ bpc = IF bentry = "cli" THEN "main" ELSE "resolve"
  /\ bargc \in IF bentry = "cli" THEN {1, 2} ELSE {2}
  /\ path \in Paths
  /\ files \in IF path = "dir" THEN SeqsUpTo(RecordFiles, MaxFiles)
               ELSE IF path \in {"stats_json", "plain_json"}
                    THEN [1 .. 1 -> RecordFiles]
                    ELSE {<<>>}
  /\ bomDirExists \in BOOLEAN
  /\ reportlab_available \in BOOLEAN
  /\ fpdfInstalled \in BOOLEAN
  /\ fpdf_available = (~reportlab_available /\ fpdfInstalled)
  /\ strays \in IF path = "dir" THEN SeqsUpTo(StrayFiles, 1) ELSE {<<>>}
  /\ pdfAttempts = <<>>
  /\ stats_files = <<>>
  /\ idx = 0
  /\ parts_data = <<>>
  /\ total_cost = 0
  /\ total_weight = 0
  /\ csv = NoCsv
  /\ pdf_generated = FALSE
  /\ bret = "pending"
  /\ pdf_path = FALSE
  /\ bexit = 0 - 1
  /\ braised = FALSE
  /\ bomDirFailed = FALSE

\* no aggregator is running
BomIdle ==
  /\ bpc = "idle"
  /\ bentry = "call"
  /\ bargc = 2
  /\ path = "missing"
  /\ files = <<>>
  /\ bomDirExists = FALSE
  /\ reportlab_available = FALSE
  /\ fpdf_available = FALSE
  /\ fpdfInstalled = FALSE
  /\ strays = <<>>
  /\ pdfAttempts = <<>>
  /\ stats_files = <<>>
  /\ idx = 0
  /\ parts_data = <<>>
  /\ total_cost = 0
  /\ total_weight = 0
  /\ csv = NoCsv
  /\ pdf_generated = FALSE
  /\ bret = "pending"
  /\ pdf_path = FALSE
  /\ bexit = 0 - 1
  /\ braised = FALSE
  /\ bomDirFailed = FALSE

\* no extractor is running
SliceIdle ==
  /\ pc = "idle"
  /\ entry = "call"
  /\ argc = 2
  /\ inputExists = FALSE
  /\ cfg = [exists |-> FALSE, cost |-> NoKey, sup |-> NoKey, sm |-> <<>>]
  /\ filament_cost_per_kg = Unset
  /\ supports_enabled = Unset
  /\ temp = [dir |-> FALSE, with |-> FALSE, without |-> FALSE]
  /\ gcodeWith = NoGcode
  /\ gcodeWithout = NoGcode
  /\ metrics = InitialMetrics
  /\ statsFile = <<>>
  /\ ret = "pending"
  /\ exitCode = 0 - 1
  /\ calls = <<>>
  /\ raised = FALSE
  /\ created = FALSE
  /\ cleanupFault = 0
  /\ warnings = {}
  /\ variants = [with |-> <<>>, without |-> <<>>]
  /\ with_supports_time = Unknown
  /\ without_supports_time = Unknown

----------------------------------------------------------------------------
(* The command line and generate_bom, one action per step *)

\* __main__: usage and path checks, then the call
BomMain ==
  /\ bpc = "main"
  /\ IF bargc # 2 \/ path = "missing"
     THEN /\ bexit' = 1
          /\ bpc' = "exited"
     ELSE /\ bexit' = bexit
          /\ bpc' = "resolve"
  /\ UNCHANGED <<bentry, bargc, path, files, bomDirExists,
                 reportlab_available, fpdf_available, stats_files, idx,
                 parts_data, total_cost, total_weight, csv, pdf_generated,
                 bret, pdf_path, braised>>
  /\ UNCHANGED <<bomDirFailed, strays, fpdfInstalled, pdfAttempts, svars,
                 cvars>>

\* the input path is resolved to the list of record files
Resolve ==
  /\ bpc = "resolve"
  /\ IF path = "dir" /\ GlobStats(files, strays) # <<>>
     THEN /\ stats_files' = GlobStats(files, strays)
          /\ bpc' = "parse"
          /\ bret' = bret
     ELSE IF path \in {"stats_json", "plain_json"}
     THEN /\ stats_files' = files
          /\ bpc' = "parse"
          /\ bret' = bret
     ELSE /\ stats_files' = <<>>
          /\ bret' = "None"
          /\ bpc' = "returned"
  /\ UNCHANGED <<bentry, bargc, path, files, bomDirExists,
                 reportlab_available, fpdf_available, idx, parts_data,
                 total_cost, total_weight, csv, pdf_generated, pdf_path,
                 bexit, braised>>
  /\ UNCHANGED <<bomDirFailed, strays, fpdfInstalled, pdfAttempts, svars,
                 cvars>>

\* one turn of the parsing loop
ParseFile ==
  /\ bpc = "parse"
  /\ idx < Len(stats_files)
  /\ LET st == Parsed([parts |-> parts_data, cost |-> total_cost,
                       weight |-> total_weight], stats_files[idx + 1])
     IN /\ parts_data' = st.parts
        /\ total_cost' = st.cost
        /\ total_weight' = st.weight
  /\ idx' = idx + 1
  /\ UNCHANGED <<bpc, bentry, bargc, path, files, bomDirExists,
                 reportlab_available, fpdf_available, stats_files, csv,
                 pdf_generated, bret, pdf_path, bexit, braised>>
  /\ UNCHANGED <<bomDirFailed, strays, fpdfInstalled, pdfAttempts, svars,
                 cvars>>

\* after the loop: no surviving record ends the run, else the records are
\* sorted by name; a TypeError of the sort reaches the general handler
SortParts ==
  /\ bpc = "parse"
  /\ idx = Len(stats_files)
  /\ IF parts_data = <<>>
     THEN /\ bret' = "None"
          /\ bpc' = "returned"
          /\ UNCHANGED <<parts_data, braised>>
     ELSE IF SortRaises(parts_data)
     THEN /\ braised' = TRUE
          /\ bret' = "None"
          /\ bpc' = "returned"
          /\ UNCHANGED parts_data
     ELSE /\ parts_data' = SortByName(parts_data)
          /\ bpc' = "mkdir"
          /\ UNCHANGED <<bret, braised>>
  /\ UNCHANGED <<bentry, bargc, path, files, bomDirExists,
                 reportlab_available, fpdf_available, stats_files, idx,
                 total_cost, total_weight, csv, pdf_generated, pdf_path,
                 bexit>>
  /\ UNCHANGED <<bomDirFailed, strays, fpdfInstalled, pdfAttempts, svars,
                 cvars>>

\* the BOM directory is created if absent; mk is whether os.makedirs
\* succeeds
MakeBomDir ==
  /\ bpc = "mkdir"
  /\ \E mk \in BOOLEAN :
       IF bomDirExists \/ mk
       THEN /\ bomDirExists' = TRUE
            /\ bomDirFailed' = FALSE
            /\ bpc' = "csv"
            /\ bret' = bret
       ELSE /\ bomDirExists' = FALSE
            /\ bomDirFailed' = TRUE
            /\ bret' = "None"
            /\ bpc' = "returned"
  /\ UNCHANGED <<bentry, bargc, path, files, reportlab_available,
                 fpdf_available, stats_files, idx, parts_data, total_cost,
                 total_weight, csv, pdf_generated, pdf_path, bexit, braised>>
  /\ UNCHANGED <<strays, fpdfInstalled, pdfAttempts, svars, cvars>>

\* generate_csv_bom is called and its result ignored
WriteCsv ==
  /\ bpc = "csv"
  /\ \E openOk \in BOOLEAN :
       csv' = GenerateCsv(parts_data, total_cost, total_weight, openOk)
  /\ bpc' = "pdf"
  /\ UNCHANGED <<bentry, bargc, path, files, bomDirExists,
                 reportlab_available, fpdf_available, stats_files, idx,
                 parts_data, total_cost, total_weight, pdf_generated, bret,
                 pdf_path, bexit, braised>>
  /\ UNCHANGED <<bomDirFailed, strays, fpdfInstalled, pdfAttempts, svars,
                 cvars>>

\* the PDF stage, then the pair of paths is returned
WritePdf ==
  /\ bpc = "pdf"
  /\ \E renderOk \in BOOLEAN :
       LET g == PdfGenerated(reportlab_available, fpdf_available,
                             parts_data, renderOk)
       IN /\ pdf_generated' = g
          /\ pdf_path' = PdfPath(g)
  /\ pdfAttempts' = PdfAttempts(reportlab_available, fpdf_available)
  /\ bret' = "pair"
  /\ bpc' = "returned"
  /\ UNCHANGED <<bentry, bargc, path, files, bomDirExists,
                 reportlab_available, fpdf_available, stats_files, idx,
                 parts_data, total_cost, total_weight, csv, bexit, braised>>
  /\ UNCHANGED <<bomDirFailed, strays, fpdfInstalled, svars, cvars>>

\* __main__ after the call: the exit status
BomMainExit ==
  /\ bpc = "returned"
  /\ bentry = "cli"
  /\ bexit' = BomExitCodeOf(bret)
  /\ bpc' = "exited"
  /\ UNCHANGED <<bentry, bargc, path, files, bomDirExists,
                 reportlab_available, fpdf_available, stats_files, idx,
                 parts_data, total_cost, total_weight, csv, pdf_generated,
                 bret, pdf_path, braised>>
  /\ UNCHANGED <<bomDirFailed, strays, fpdfInstalled, pdfAttempts, svars,
                 cvars>>

BomNext ==
  \/ BomMain
  \/ Resolve
  \/ ParseFile
  \/ SortParts
  \/ MakeBomDir
  \/ WriteCsv
  \/ WritePdf
  \/ BomMainExit

----------------------------------------------------------------------------
(* Two simultaneous runs of slice_with_prusa on different input files *)

Procs == 1 .. 2
Dirs == 1 .. 2
Inputs == [dir : Dirs, part : 1 .. 2]

NoTemps == [dir |-> FALSE, with |-> 0, without |-> 0]

\* temp_dir = os.path.join(output_dir, "temp_configs"), output_dir being
\* the directory of the input file: the variants have fixed names in it
TempDirOf(input) == input.dir

\* temp_configs of the run
Temps(p) == cfs[TempDirOf(cin[p])]

\* what the cleanup block the run is in makes slice_with_prusa return
ReturnOf(block) == IF block = "final" THEN "metrics" ELSE "None"

ConcInit ==
  /\ cin \in {f \in [Procs -> Inputs] : f[1] # f[2]}
  /\ csupports \in BOOLEAN
  /\ cpc = [p \in Procs |-> "makedirs"]
  /\ cfs = [d \in Dirs |-> NoTemps]
  /\ cret = [p \in Procs |-> "pending"]
  /\ cmissing = [p \in Procs |-> FALSE]
  /\ ccleanup = [p \in Procs |-> "none"]

\* no pair of simultaneous runs
ConcIdle ==
  /\ cin = [p \in Procs |-> [dir |-> 1, part |-> p]]
  /\ csupports = FALSE
  /\ cpc = [p \in Procs |-> "idle"]
  /\ cfs = [d \in Dirs |-> NoTemps]
  /\ cret = [p \in Procs |-> "pending"]
  /\ cmissing = [p \in Procs |-> FALSE]
  /\ ccleanup = [p \in Procs |-> "none"]

\* the run goes to pos, the rest of its state unchanged
Goto(p, pos) == cpc' = [cpc EXCEPT ![p] = pos]

\* an exception reaches the general handler
Raise(p) ==
  /\ Goto(p, "exists_dir")
  /\ ccleanup' = [ccleanup EXCEPT ![p] = "except"]

\* the cleanup block ends, by its end or by an OSError, and the run returns
Return(p) ==
  /\ Goto(p, "returned")
  /\ cret' = [cret EXCEPT ![p] = ReturnOf(ccleanup[p])]

\* os.makedirs(temp_dir, exist_ok=True), the mkdir inside it: temp_configs
\* is created, or it exists already and os.makedirs goes on to test it
MakeDirs(p) ==
  /\ cpc[p] = "makedirs"
  /\ IF Temps(p).dir
     THEN /\ Goto(p, "makedirs_isdir")
          /\ UNCHANGED cfs
     ELSE /\ cfs' = [cfs EXCEPT ![TempDirOf(cin[p])] = [@ EXCEPT !.dir = TRUE]]
          /\ Goto(p, "open_with")
  /\ UNCHANGED <<cin, csupports, cret, cmissing, ccleanup, svars, bvars>>

\* os.makedirs after mkdir found temp_configs: os.path.isdir(temp_dir), and
\* FileExistsError is raised when temp_configs has been removed meanwhile
MakeDirsIsDir(p) ==
  /\ cpc[p] = "makedirs_isdir"
  /\ IF Temps(p).dir
     THEN Goto(p, "open_with") /\ UNCHANGED ccleanup
     ELSE Raise(p)
  /\ UNCHANGED <<cin, csupports, cfs, cret, cmissing, svars, bvars>>

\* the with-supports variant is written; open() raises when temp_configs
\* has been removed
OpenWith(p) ==
  /\ cpc[p] = "open_with"
  /\ IF Temps(p).dir
     THEN /\ cfs' = [cfs EXCEPT ![TempDirOf(cin[p])] = [@ EXCEPT !.with = p]]
          /\ Goto(p, "open_without")
          /\ UNCHANGED ccleanup
     ELSE /\ Raise(p)
          /\ UNCHANGED cfs
  /\ UNCHANGED <<cin, csupports, cret, cmissing, svars, bvars>>

\* the no-supports variant is written
OpenWithout(p) ==
  /\ cpc[p] = "open_without"
  /\ IF Temps(p).dir
     THEN /\ cfs' = [cfs EXCEPT ![TempDirOf(cin[p])] = [@ EXCEPT !.without = p]]
          /\ Goto(p, "first_slice")
          /\ UNCHANGED ccleanup
     ELSE /\ Raise(p)
          /\ UNCHANGED cfs
  /\ UNCHANGED <<cin, csupports, cret, cmissing, svars, bvars>>

\* subprocess.run starts the slicer, which looks for the variant written by
\* owner (0: the file is missing), or raises when the slicer cannot be run
SlicerStart(p, owner, running) ==
  \E started \in BOOLEAN :
    IF started
    THEN /\ cmissing' = [cmissing EXCEPT ![p] = (owner = 0)]
         /\ Goto(p, running)
         /\ UNCHANGED ccleanup
    ELSE /\ Raise(p)
         /\ UNCHANGED cmissing

\* the slicer exits, with a non-zero status when it found no variant;
\* block is the cleanup that follows a zero status ("none": no cleanup yet)
SlicerExit(p, okPc, block) ==
  \E out \in {"ok", "fail"} :
    IF ~cmissing[p] /\ out = "ok"
    THEN /\ Goto(p, okPc)
         /\ ccleanup' = [ccleanup EXCEPT ![p] = block]
    ELSE /\ Goto(p, "rm_with")
         /\ ccleanup' = [ccleanup EXCEPT ![p] = "fail"]

\* first slice, with supports, when supports are enabled
StartWith(p) ==
  /\ cpc[p] = "first_slice"
  /\ IF ~csupports
     THEN /\ Goto(p, "second_slice")
          /\ UNCHANGED <<cmissing, ccleanup>>
     ELSE SlicerStart(p, Temps(p).with, "with_running")
  /\ UNCHANGED <<cin, csupports, cfs, cret, svars, bvars>>

ExitWith(p) ==
  /\ cpc[p] = "with_running"
  /\ SlicerExit(p, "second_slice", "none")
  /\ UNCHANGED <<cin, csupports, cfs, cret, cmissing, svars, bvars>>

\* second slice, always without supports
StartWithout(p) ==
  /\ cpc[p] = "second_slice"
  /\ SlicerStart(p, Temps(p).without, "without_running")
  /\ UNCHANGED <<cin, csupports, cfs, cret, svars, bvars>>

\* after a zero status the record is computed and written to the file of
\* the part, and the final cleanup begins
ExitWithout(p) ==
  /\ cpc[p] = "without_running"
  /\ SlicerExit(p, "rm_with", "final")
  /\ UNCHANGED <<cin, csupports, cfs, cret, cmissing, svars, bvars>>

\* the handler tests os.path.exists(temp_dir)
ExistsDir(p) ==
  /\ cpc[p] = "exists_dir"
  /\ IF Temps(p).dir
     THEN Goto(p, "exists_with") /\ UNCHANGED cret
     ELSE Return(p)
  /\ UNCHANGED <<cin, csupports, cfs, cmissing, ccleanup, svars, bvars>>

\* the handler tests os.path.exists(config_with_supports)
ExistsWith(p) ==
  /\ cpc[p] = "exists_with"
  /\ Goto(p, IF Temps(p).with # 0 THEN "rm_with" ELSE "exists_without")
  /\ UNCHANGED <<cin, csupports, cfs, cret, cmissing, ccleanup, svars, bvars>>

\* the handler tests os.path.exists(config_without_supports)
ExistsWithout(p) ==
  /\ cpc[p] = "exists_without"
  /\ Goto(p, IF Temps(p).without # 0 THEN "rm_without" ELSE "rmdir")
  /\ UNCHANGED <<cin, csupports, cfs, cret, cmissing, ccleanup, svars, bvars>>

\* os.remove(config_with_supports): OSError when the file is missing or
\* the file system refuses
RemoveWith(p) ==
  /\ cpc[p] = "rm_with"
  /\ \E refused \in BOOLEAN :
       IF Temps(p).with # 0 /\ ~refused
       THEN /\ cfs' = [cfs EXCEPT ![TempDirOf(cin[p])] = [@ EXCEPT !.with = 0]]
            /\ Goto(p, IF ccleanup[p] = "except" THEN "exists_without"
                       ELSE "rm_without")
            /\ UNCHANGED cret
       ELSE /\ Return(p)
            /\ UNCHANGED cfs
  /\ UNCHANGED <<cin, csupports, cmissing, ccleanup, svars, bvars>>

\* os.remove(config_without_supports)
RemoveWithout(p) ==
  /\ cpc[p] = "rm_without"
  /\ \E refused \in BOOLEAN :
       IF Temps(p).without # 0 /\ ~refused
       THEN /\ cfs' = [cfs EXCEPT ![TempDirOf(cin[p])] =
                        [@ EXCEPT !.without = 0]]
            /\ Goto(p, "rmdir")
            /\ UNCHANGED cret
       ELSE /\ Return(p)
            /\ UNCHANGED cfs
  /\ UNCHANGED <<cin, csupports, cmissing, ccleanup, svars, bvars>>

\* os.rmdir(temp_dir): OSError when temp_configs is missing or not empty,
\* or the file system refuses; then the run returns
RemoveDir(p) ==
  /\ cpc[p] = "rmdir"
  /\ \E refused \in BOOLEAN :
       cfs' = [cfs EXCEPT ![TempDirOf(cin[p])] =
                 IF @.dir /\ @.with = 0 /\ @.without = 0 /\ ~refused
                 THEN NoTemps ELSE @]
  /\ Return(p)
  /\ UNCHANGED <<cin, csupports, cmissing, ccleanup, svars, bvars>>

ConcNext ==
  \/ \E p \in Procs : MakeDirs(p)
  \/ \E p \in Procs : MakeDirsIsDir(p)
  \/ \E p \in Procs : OpenWith(p)
  \/ \E p \in Procs : OpenWithout(p)
  \/ \E p \in Procs : StartWith(p)
  \/ \E p \in Procs : ExitWith(p)
  \/ \E p \in Procs : StartWithout(p)
  \/ \E p \in Procs : ExitWithout(p)
  \/ \E p \in Procs : ExistsDir(p)
  \/ \E p \in Procs : ExistsWith(p)
  \/ \E p \in Procs : ExistsWithout(p)
  \/ \E p \in Procs : RemoveWith(p)
  \/ \E p \in Procs : RemoveWithout(p)
  \/ \E p \in Procs : RemoveDir(p)

----------------------------------------------------------------------------
(* Specifications: a run of the extractor, a run of the aggregator, and
   two simultaneous runs of the extractor *)

Init == SliceInit /\ BomIdle /\ ConcIdle

Next == SliceNext

Spec == Init /\ [][Next]_vars

BomStart == SliceIdle /\ BomInit /\ ConcIdle

BomSpec == BomStart /\ [][BomNext]_vars

ConcStart == SliceIdle /\ BomIdle /\ ConcInit

ConcSpec == ConcStart /\ [][ConcNext]_vars

----------------------------------------------------------------------------
(* Properties of the metrics extractor *)

\* the calculations of the run are done
RecordComputed == pc \in {"write_stats", "cleanup"} \/ ret = "metrics"

\* the weights extracted from the two runs
WeightWith == ExtractMetrics(gcodeWith).weight_g
WeightWithout == ExtractMetrics(gcodeWithout).weight_g

\* C1: with supports enabled, supports_weight_g is t - o for extracted
\* weights t >= o >= 0 and 0 for t < o; with supports disabled it is 0.
C1_SupportsWeight ==
  RecordComputed =>
    IF Truthy(supports_enabled)
    THEN /\ (WeightWith >= WeightWithout /\ WeightWithout >= 0
               => metrics.supports_weight_g = WeightWith - WeightWithout)
         /\ (WeightWith < WeightWithout => metrics.supports_weight_g = 0)
    ELSE metrics.supports_weight_g = 0

C1_Witness ==
  /\ ret = "metrics"
  /\ Truthy(supports_enabled)
  /\ WeightWithout > 0
  /\ WeightWith > WeightWithout
  /\ metrics.supports_weight_g = WeightWith - WeightWithout

\* the weight invariant of a metrics record, for a given supports setting
WeightInvariant(m, enabled) ==
  IF enabled
  THEN m.total_weight_g = m.object_weight_g + m.supports_weight_g
  ELSE m.supports_weight_g = 0 /\ m.total_weight_g = m.object_weight_g

\* C2: every record returned or persisted has total_weight_g =
\* object_weight_g + supports_weight_g when supports are enabled, and
\* supports_weight_g = 0, total_weight_g = object_weight_g otherwise, for
\* every combination of extracted weights.
C2_WeightInvariant ==
  /\ ret = "metrics" => WeightInvariant(metrics, Truthy(supports_enabled))
  /\ statsFile # <<>> =>
       WeightInvariant(statsFile[1], Truthy(supports_enabled))

\* the configured cost is a positive number
CostPositive == IsNumber(filament_cost_per_kg) /\ filament_cost_per_kg.num > 0

\* C3 as stated: price_egp = round((w / 1000) * c, 1), w being the
\* total_weight_g of the record, not rounded before the multiplication.
C3_PriceFromStoredWeight ==
  ret = "metrics" /\ CostPositive =>
    metrics.price_egp =
      RoundHalfEven(metrics.total_weight_g * filament_cost_per_kg.num, 10000)

\* C3 amended: price_egp = round((round(w, 1) / 1000) * c, 1): the weight
\* of the record is rounded to one decimal before the multiplication.
C3_PriceFromRoundedWeight ==
  ret = "metrics" /\ CostPositive =>
    metrics.price_egp =
      RoundHalfEven(RoundHalfEven(metrics.total_weight_g, 10) * 10
                      * filament_cost_per_kg.num, 10000)

C3_Witness ==
  /\ ret = "metrics"
  /\ filament_cost_per_kg = PyFloat(2000)
  /\ metrics.total_weight_g = 1236
  /\ metrics.price_egp = 248

\* the values of filament_cost in config.ini that are no positive number
NotPositiveCostTokens == {"0", "-5", "abc", "YES"}

\* C4: a configured filament cost that is not a positive number gives
\* price_egp = 0.0 in the record that is returned.
C4_InvalidCostGivesZeroPrice ==
  ret = "metrics" /\ cfg.cost \in NotPositiveCostTokens =>
    metrics.price_egp = 0

\* the fatal conditions of a run
SlicerFailed == \E i \in 1 .. Len(calls) : calls[i].out = "fail"
Fatal == ~inputExists \/ ~cfg.exists \/ SlicerFailed

\* what a fatal run does: no record, None, exit status 1
StopsWithoutRecord ==
  /\ ret # "metrics"
  /\ statsFile = <<>>
  /\ pc = "returned" => ret = "None"
  /\ pc = "exited" => exitCode = 1

\* C5 as stated: a run given a path stops without a record and with exit
\* status 1 when the input or config.ini is missing or a slicer invocation
\* exits non-zero, and every other completed run exits 0.
C5_FatalExactlyThree ==
  pc \in {"returned", "exited"} /\ argc = 2 =>
    /\ Fatal => StopsWithoutRecord
    /\ ~Fatal /\ pc = "exited" => exitCode = 0

\* C5 amended: an exception that reaches the general handler of
\* slice_with_prusa stops the run in the same way; every completed run
\* without a fatal condition and without such an exception exits 0.
C5_FatalOrException ==
  pc \in {"returned", "exited"} /\ argc = 2 =>
    /\ Fatal \/ raised => StopsWithoutRecord
    /\ ~Fatal /\ ~raised /\ pc = "exited" => exitCode = 0

C5_Witness ==
  /\ pc = "exited"
  /\ exitCode = 1
  /\ Len(calls) = 2
  /\ calls[1].out = "ok"
  /\ calls[2].out = "fail"
  /\ statsFile = <<>>

\* C6 as stated: once both temporary variants were created, both have been
\* removed when the function returns, on every exit path.
C6_TempsAlwaysRemoved ==
  pc \in {"returned", "exited"} /\ created => ~temp.with /\ ~temp.without

\* C6 amended: once both variants were created, when the function returns
\* both have been removed unless a removal raised OSError; the error is
\* ignored, and the file that could not be removed and the files whose
\* removal came after it remain.
C6_TempsRemovedUnlessOSError ==
  pc \in {"returned", "exited"} /\ created =>
    CASE cleanupFault = 1 -> temp.with /\ temp.without
      [] cleanupFault = 2 -> ~temp.with /\ temp.without
      [] OTHER -> ~temp.with /\ ~temp.without

C6_Witness ==
  /\ pc = "returned"
  /\ created
  /\ raised
  /\ cleanupFault = 0
  /\ temp = [dir |-> FALSE, with |-> FALSE, without |-> FALSE]

\* C7: a record that is returned, and a run that exits 0, have the record
\* persisted in <part>_stats.json.
C7_ReturnedRecordPersisted ==
  /\ ret = "metrics" => statsFile = <<metrics>>
  /\ pc = "exited" /\ exitCode = 0 => statsFile = <<metrics>>

----------------------------------------------------------------------------
(* Properties of the BOM aggregator *)

\* a value of a record with a missing or invalid value counted as 0
ValueOrZero(v) == IF v.t = "num" THEN v.n ELSE 0

RECURSIVE SumPrices(_)
SumPrices(parts) ==
  IF parts = <<>> THEN 0
  ELSE ValueOrZero(Head(parts).price_egp) + SumPrices(Tail(parts))

RECURSIVE SumWeights(_)
SumWeights(parts) ==
  IF parts = <<>> THEN 0
  ELSE ValueOrZero(Head(parts).total_weight_g) + SumWeights(Tail(parts))

\* the parsing loop is over and records survived
Aggregated == bpc \in {"mkdir", "csv", "pdf"} \/ bret = "pair"

\* C8: the totals of generate_bom are the sums of price_egp and of
\* total_weight_g over the surviving records, a missing or invalid value
\* counted as 0.
C8_TotalsAreSums ==
  Aggregated =>
    /\ total_cost = SumPrices(parts_data)
    /\ total_weight = SumWeights(parts_data)

\* a record with the required keys and a malformed value in a numeric field
HasMalformedNumber(f) ==
  /\ f.json
  /\ HasRequiredKeys(f)
  /\ \/ f.price_egp.t = "str"
     \/ f.total_weight_g.t = "str"
     \/ f.object_weight_g.t = "str"
     \/ f.supports_weight_g.t = "str"

\* C9: with a malformed numeric value in a surviving record the run is not
\* aborted and the CSV that is written is complete: one row per surviving
\* record, the malformed value shown as zero, and the summary row.
C9_MalformedNumberKeepsCsvComplete ==
  /\ bret = "pair"
  /\ csv.exists
  /\ \E i \in 1 .. Len(parts_data) : HasMalformedNumber(parts_data[i])
  => /\ Len(csv.rows) = Len(parts_data)
     /\ Len(csv.summary) = 1

\* the record files generate_bom has to process, and the valid ones
Candidates == IF path \in {"dir", "stats_json", "plain_json"} THEN files ELSE <<>>
ValidFile(f) == f.json /\ HasRequiredKeys(f)
NoValidRecords ==
  \A i \in 1 .. Len(Candidates) : ~ValidFile(Candidates[i])

\* C10 as stated: generate_bom returns None exactly when no candidate file was found
\* or no valid record survived, and a pair of paths otherwise; the command
\* line exits 1 exactly when None was returned or the path is invalid.
C10_NoneOnlyWithoutRecords ==
  /\ bpc \in {"returned", "exited"} /\ bret # "pending" =>
       /\ bret = "None" <=> NoValidRecords
       /\ bret # "None" => bret = "pair"
  /\ bpc = "exited" /\ bargc = 2 =>
       (bexit = 1 <=> (bret = "None" \/ path = "missing"))

\* C10 amended: generate_bom returns None exactly when no candidate file
\* was found, no valid record survived, the BOM output directory could not
\* be created, or an exception reached its general handler; otherwise it
\* returns a pair of paths.  The exit status is as stated.
C10_NoneAlsoOnErrors ==
  /\ bpc \in {"returned", "exited"} /\ bret # "pending" =>
       /\ bret = "None" <=> (NoValidRecords \/ bomDirFailed \/ braised)
       /\ bret # "None" => bret = "pair"
  /\ bpc = "exited" /\ bargc = 2 =>
       (bexit = 1 <=> (bret = "None" \/ path = "missing"))

C10_Witness ==
  /\ bpc = "exited"
  /\ bexit = 1
  /\ bret = "None"
  /\ Len(files) = 2
  /\ NoValidRecords
  /\ ~bomDirFailed
  /\ ~braised

----------------------------------------------------------------------------
(* Properties of the BOM aggregator: skipping, sorting *)

\* the turn of the parsing loop that handles file f
ParseTurn == bpc = "parse" /\ idx < Len(stats_files) /\ idx' = idx + 1

\* C11: a record file that fails to parse or lacks a required key is
\* skipped without aborting the run and adds nothing to the records and to
\* the totals, a valid file is taken up, and a run whose candidate files
\* are all invalid returns None.
C11_InvalidFilesSkipped ==
  /\ [][ParseTurn =>
          IF ValidFile(stats_files[idx + 1])
          THEN parts_data' = Append(parts_data, stats_files[idx + 1])
          ELSE /\ UNCHANGED <<parts_data, total_cost, total_weight>>
               /\ bpc' = "parse"
               /\ braised' = FALSE]_vars
  /\ [](bpc \in {"returned", "exited"} /\ bret # "pending" /\ NoValidRecords
          => bret = "None" /\ parts_data = <<>> /\ total_cost = 0
             /\ total_weight = 0)

C11_Witness ==
  /\ bret = "pair"
  /\ Len(files) = 2
  /\ ~ValidFile(files[1])
  /\ ValidFile(files[2])
  /\ parts_data = <<files[2]>>
  /\ total_cost = ValueOrZero(files[2].price_egp)
  /\ total_cost > 0

\* the records are in ascending order of their names, a record without a
\* name sorting as ""
NameOrEmpty(p) == IF p.part_name.t = "str" THEN p.part_name.n ELSE 0
IsSortedByName(parts) ==
  \A i \in 1 .. Len(parts) - 1 : NameOrEmpty(parts[i]) <= NameOrEmpty(parts[i + 1])

\* C13: the surviving records are reported in ascending order of part
\* name, "" standing for a missing name, and the sort never aborts the run.
C13_SortedAndNeverAborts ==
  /\ Aggregated => IsSortedByName(parts_data)
  /\ ~braised

----------------------------------------------------------------------------
(* Properties of the extractor: the variants, the slicer runs, the marker *)

\* the text that has support_material forced to d: every key line set to
\* d, and a key line appended when the base has none
Forced(base, d) ==
  IF HasKeyLine(base)
  THEN [i \in 1 .. Len(base) |->
          IF base[i].kind = "key" THEN KeyLine(d) ELSE base[i]]
  ELSE Append(base, KeyLine(d))

\* C17: the with-supports variant is the base configuration with
\* support_material forced to 1 and the no-supports variant is the base
\* configuration with support_material forced to 0, by substitution when
\* the key is present, whatever its value, and by appending when absent.
C17_VariantsForced ==
  created => /\ variants.with = Forced(cfg.sm, "1")
             /\ variants.without = Forced(cfg.sm, "0")

\* the slicer runs a complete run makes, in order
ExpectedModes ==
  IF Truthy(supports_enabled) THEN <<"with", "without">> ELSE <<"without">>

\* C18: the slicer runs at most twice with supports enabled, with supports
\* first, and only without supports when they are disabled; a run of the
\* slicer that fails is the last one; the record is written only after
\* every run of the slicer has exited with status zero.
C18_SlicerOrder ==
  /\ calls # <<>> =>
       /\ Len(calls) <= Len(ExpectedModes)
       /\ \A i \in 1 .. Len(calls) : calls[i].mode = ExpectedModes[i]
       /\ \A i \in 1 .. Len(calls) - 1 : calls[i].out = "ok"
       /\ calls[Len(calls)].out = "fail"
            => pc \in {"returned", "exited"} /\ ret = "None"
  /\ statsFile # <<>> =>
       /\ Len(calls) = Len(ExpectedModes)
       /\ \A i \in 1 .. Len(calls) : calls[i].out = "ok"

C18_Witness ==
  /\ statsFile # <<>>
  /\ calls = <<[mode |-> "with", out |-> "ok"],
               [mode |-> "without", out |-> "ok"]>>

\* the run of the slicer in this mode exited with status zero
SliceDone(mode) ==
  \E i \in 1 .. Len(calls) : calls[i] = [mode |-> mode, out |-> "ok"]

\* the weight marker cannot be read from this G-code
Unextractable(g) == ~g.exists \/ g.marker = NoMarker

\* the run goes on to the record after the no-supports slice: the record is
\* written and returned
RecordFollows ==
  /\ SliceDone("without") /\ pc \in {"returned", "exited"} => ret = "metrics"
  /\ ret = "metrics" => statsFile = <<metrics>>

\* C19: a weight marker that cannot be extracted, because it is absent or
\* the G-code is missing, gives the weight 0.0 with a warning, and the
\* record is still computed, written and returned with that weight.
C19_ZeroWeightWithWarning ==
  /\ SliceDone("with") /\ Unextractable(gcodeWith) =>
       /\ "with" \in warnings
       /\ ret = "metrics" => metrics.total_weight_g = 0
  /\ SliceDone("without") /\ Unextractable(gcodeWithout) =>
       /\ "without" \in warnings
       /\ ret = "metrics" => metrics.object_weight_g = 0
  /\ RecordFollows

----------------------------------------------------------------------------
(* Properties of the BOM aggregator: the input path, the CSV, the PDF *)

\* generate_bom has resolved its input path
Resolved == bpc \in {"parse", "mkdir", "csv", "pdf"} \/ bret # "pending"

\* the run ended at the resolution of the path, with None
PathRejected == stats_files = <<>> /\ parts_data = <<>> /\ bret = "None"

\* C12 as stated: a directory gives exactly its files named *_stats.json, a
\* single file is accepted only when it is named *_stats.json, and every
\* other input is an error.
C12_OnlyStatsNamesAccepted ==
  Resolved =>
    /\ path = "dir" => stats_files = files
    /\ path = "dir" /\ files = <<>> => PathRejected
    /\ path = "stats_json" => stats_files = files
    /\ path \notin {"dir", "stats_json"} => PathRejected

\* C12: a directory gives exactly its files named *_stats.json, a single
\* file is accepted when its name ends in .json, whether or not it is named
\* *_stats.json, and every other input is an error.
C12_AnyJsonFileAccepted ==
  Resolved =>
    /\ path = "dir" => stats_files = files
    /\ path = "dir" /\ files = <<>> => PathRejected
    /\ path \in {"stats_json", "plain_json"} => stats_files = files
    /\ path \in {"missing", "other_file"} => PathRejected

C12_Witness ==
  /\ bret = "pair"
  /\ path = "dir"
  /\ strays # <<>>
  /\ Len(files) = 2
  /\ stats_files = files

\* C14: the CSV has one row per surviving record, in the sorted order,
\* then one summary row with the number of records and the two totals,
\* the weight with four decimals and the cost with two.
C14_CsvRowsAndSummary ==
  bret = "pair" /\ csv.exists =>
    /\ Len(csv.rows) = Len(parts_data)
    /\ \A i \in 1 .. Len(csv.rows) :
         /\ csv.rows[i].name = parts_data[i].part_name
         /\ csv.rows[i].total = 100 * ValueOrZero(parts_data[i].total_weight_g)
         /\ csv.rows[i].price = 10 * ValueOrZero(parts_data[i].price_egp)
    /\ IsSortedByName(parts_data)
    /\ csv.summary = <<[count |-> Len(parts_data),
                        total_weight |-> 100 * total_weight,
                        total_cost |-> 10 * total_cost]>>

\* the PDF stage called this generator
Attempted(gen) == \E i \in 1 .. Len(pdfAttempts) : pdfAttempts[i] = gen

\* the CSV is produced: the file is there with a row for every surviving
\* record and the summary row
CsvProduced ==
  /\ csv.exists
  /\ Len(csv.rows) = Len(parts_data)
  /\ Len(csv.summary) = 1

\* C15: the PDF stage is best effort: when no PDF library is available or
\* the PDF generation fails, generate_bom still produces the CSV and
\* returns the pair with the PDF path None, never None for that reason; the
\* PDF path is not None only if a generator was called and returned
\* success.
C15_PdfBestEffort ==
  /\ bret = "None" => ~csv.exists /\ pdfAttempts = <<>>
  /\ bret = "pair" =>
       /\ pdf_path => pdf_generated /\ pdfAttempts # <<>>
       /\ ~pdf_generated => ~pdf_path /\ CsvProduced

\* C20: FPDF is called when ReportLab is not available and when the
\* ReportLab generation was called and failed, and the PDF path is None
\* only after every available generator has failed or was skipped.
C20_FpdfFallback ==
  bret = "pair" =>
    /\ ~reportlab_available /\ fpdfInstalled => Attempted("fpdf")
    /\ Attempted("reportlab") /\ ~pdf_generated /\ fpdfInstalled
         => Attempted("fpdf")
    /\ ~pdf_path =>
         /\ reportlab_available => Attempted("reportlab")
         /\ fpdfInstalled => Attempted("fpdf")

----------------------------------------------------------------------------
(* Properties of two simultaneous runs of the extractor *)

\* the run has written this variant and a slicer run of it has yet to load it
AwaitsWith(p) == csupports /\ cpc[p] \in {"open_without", "first_slice"}
AwaitsWithout(p) ==
  cpc[p] \in {"first_slice", "with_running", "second_slice"}

\* C16: for two simultaneous runs on different input files, a variant a
\* run has written and has yet to load is never overwritten or deleted by
\* the other run.
C16_OwnTemporaryFiles ==
  \A p \in Procs :
    /\ AwaitsWith(p) => Temps(p).with = p
    /\ AwaitsWithout(p) => Temps(p).without = p

----------------------------------------------------------------------------
(* Properties of the extractor: the print time *)

\* a duration text with at least one component, every component non-zero
IsDuration(t) ==
  /\ t.known
  /\ t.parts # <<>>
  /\ \A i \in 1 .. Len(t.parts) :
       t.parts[i].n > 0 /\ t.parts[i].unit \in {"h", "m", "s"}

\* C21: print_time of the record comes from the with-supports run only:
\* with supports disabled it is "Unknown" whatever the no-supports run
\* reported, and it is always "Unknown" or a duration with a non-zero
\* component.
C21_PrintTimeFromWithSupports ==
  RecordComputed =>
    /\ ~Truthy(supports_enabled) => metrics.print_time = Unknown
    /\ Truthy(supports_enabled) => metrics.print_time = with_supports_time
    /\ metrics.print_time = Unknown \/ IsDuration(metrics.print_time)

C21_Witness ==
  /\ ret = "metrics"
  /\ ~Truthy(supports_enabled)
  /\ IsDuration(without_supports_time)
  /\ metrics.print_time = Unknown
  /\ statsFile = <<metrics>>

====
